---- MODULE Spec2Model ----
(***************************************************************************)
(* The ICE agent of str0m (src/src/ice.rs): candidate store and pairing,   *)
(* STUN authentication and handling, and the connectivity check driver;    *)
(* and the latency estimator of src/src/latency.                           *)
(*                                                                         *)
(* One action per public operation of IceState; each action is the whole   *)
(* call.  Indices into the candidate lists are 0-based, as in the source.  *)
(* Pair priorities are u64 in the source; every priority of the candidate  *)
(* pools below is small enough that the source's arithmetic stays far      *)
(* below 2^31, so no wrap-around occurs in the modelled runs.              *)
(***************************************************************************)
EXTENDS Integers, Sequences, FiniteSets, TLC

VARIABLES
    controlling,               \* IceState.controlling
    ice_lite,                  \* IceState.ice_lite
    local_end_of_candidates,   \* IceState.local_end_of_candidates
    remote_end_of_candidates,  \* IceState.remote_end_of_candidates
    conn_state,                \* IceState.conn_state
    remote_creds,              \* IceState.remote_creds
    verified,                  \* IceState.verified
    local_candidates,          \* IceState.local_candidates
    remote_candidates,         \* IceState.remote_candidates
    candidate_pairs,           \* IceState.candidate_pairs
    trans_count,               \* number of transaction ids random_id has handed out
    estimator,                 \* a ScaledUnsignedEstimator: its S and its scaled field
    measurements,              \* the measurements the estimator was given, first one first
    last                       \* the last call: operation, outcome, packets enqueued
                               \* (for record: the value returned)

vars == <<controlling, ice_lite, local_end_of_candidates, remote_end_of_candidates,
          conn_state, remote_creds, verified, local_candidates, remote_candidates,
          candidate_pairs, trans_count, estimator, measurements, last>>

(***************************************************************************)
(* Bounds of the model and the inputs the session may hand to the agent.   *)
(***************************************************************************)
\* Candidates 1..NumCands may be offered on each side.
NumCands == 2
\* Inbound messages carry a transaction id in 1..MaxMsgTrans.
MaxMsgTrans == 2

\* Candidate k of the session: odd ones have priority 100, even ones 50;
\* every third one (2, 5, ...) is not a host candidate.
Cand(k) == [prio |-> IF k % 2 = 1 THEN 100 ELSE 50, host |-> (k % 3) # 2, addr |-> k]

Pool == {Cand(k) : k \in 1..NumCands}

Range(s) == {s[i] : i \in 1..Len(s)}

Min(a, b) == IF a < b THEN a ELSE b

Max(a, b) == IF a > b THEN a ELSE b

(***************************************************************************)
(* Enumerations.                                                           *)
(***************************************************************************)
IceConnectionState == {"New", "Checking", "Connected", "Completed", "Failed", "Closed"}

CheckState == {"Waiting", "InProgress", "Succeeded", "Failed"}

\* Mutant of should_check: every connection state is checked in.
should_check_always(c) == c \in IceConnectionState

should_check(c) == c \in {"New", "Checking", "Connected"}

\* Option::None of CandidatePair.attempted and CandidatePair.trans_id.
None == 0

(***************************************************************************)
(* Pair priority, as the source computes it.  In Rust `*` and `+` bind     *)
(* tighter than `^`, and `^` is bitwise exclusive or.                      *)
(***************************************************************************)
RECURSIVE BitXor(_, _)
BitXor(a, b) ==
    IF a = 0 THEN b
    ELSE IF b = 0 THEN a
    ELSE (((a % 2) + (b % 2)) % 2) + 2 * BitXor(a \div 2, b \div 2)

pair_prio(g, d) ==
    BitXor(2, 32 * Min(g, d) + 2 * Max(g, d) + (IF g > d THEN 1 ELSE 0))

\* impl Ord for CandidatePair: a <= b.
PairLe(a, b) == a.prio <= b.prio

\* Vec::sort: stable, ascending by Ord.  Element j comes before element i
\* of the result when it is smaller, or equal and earlier in the input.
SortsBefore(s, j, i) ==
    IF j < i THEN PairLe(s[j], s[i]) ELSE j # i /\ ~PairLe(s[i], s[j])

IsSorted(s) == \A i \in 1..(Len(s) - 1) : PairLe(s[i], s[i + 1])

\* A function on 1..n as a sequence.
AsSeq(f, n) == SubSeq(f, 1, n)

\* The sort of any sequence: each element goes to its rank.
SortByRank(s) ==
    LET n == Len(s)
        rank == AsSeq([i \in 1..n |->
                    1 + Cardinality({j \in 1..n : SortsBefore(s, j, i)})], n)
    IN  AsSeq([k \in 1..n |-> s[CHOOSE i \in 1..n : rank[i] = k]], n)

\* The same sort when all but the last element are in order already: the
\* last element goes behind every element that is not greater.
SortLast(s) ==
    LET n == Len(s)
        k == Cardinality({i \in 1..(n - 1) : PairLe(s[i], s[n])})
    IN  SubSeq(s, 1, k) \o <<s[n]>> \o SubSeq(s, k + 1, n - 1)

SortPairs(s) ==
    IF Len(s) <= 1 THEN s
    ELSE IF IsSorted(SubSeq(s, 1, Len(s) - 1)) THEN SortLast(s)
    ELSE SortByRank(s)

\* The pair the loop body of do_add_candidate builds for right_idx.
NewPair(left_idx, left_prio, right_idx, right_prio, prio_left) ==
    LET g == IF prio_left THEN left_prio ELSE right_prio
        d == IF prio_left THEN right_prio ELSE left_prio
    IN  [local_idx  |-> IF prio_left THEN left_idx ELSE right_idx,
         remote_idx |-> IF prio_left THEN right_idx ELSE left_idx,
         prio       |-> pair_prio(g, d),
         state      |-> "Waiting",
         attempted  |-> None,
         trans_id   |-> None]

\* Mutant of PairLoop: the loop body never runs, no pair is formed.
PairLoopNoPairs(pair_to, left_idx, left_prio, pair_with, prio_left, right_idx) ==
    pair_to

\* The for loop of do_add_candidate from right_idx on: push, then sort.
RECURSIVE PairLoop(_, _, _, _, _, _)
PairLoop(pair_to, left_idx, left_prio, pair_with, prio_left, right_idx) ==
    IF right_idx >= Len(pair_with) THEN pair_to
    ELSE PairLoop(
            SortPairs(Append(pair_to,
                NewPair(left_idx, left_prio, right_idx,
                        pair_with[right_idx + 1].prio, prio_left))),
            left_idx, left_prio, pair_with, prio_left, right_idx + 1)

MAX_PAIRS == 100

\* Mutant of PairsFull: the limit tested with > instead of >=.
PairsFullOffByOne(pair_to) == Len(pair_to) > MAX_PAIRS

\* The guard of do_add_candidate on the size of the pair list.
PairsFull(pair_to) == Len(pair_to) >= MAX_PAIRS

\* Mutant of IsRedundant: only the newest candidate is compared.
IsRedundantLast(add_to, candidate) ==
    add_to # <<>> /\ add_to[Len(add_to)] = candidate

\* The guard of do_add_candidate on a redundant candidate.
IsRedundant(add_to, candidate) == candidate \in Range(add_to)

\* Mutant of do_add_candidate: at the limit the candidate is stored, without
\* pairs.
do_add_candidate_storing(candidate, add_to, pair_with, pair_to, prio_left) ==
    IF IsRedundant(add_to, candidate)
    THEN [add_to |-> add_to, pair_to |-> pair_to, log |-> "redundant"]
    ELSE IF PairsFull(pair_to)
    THEN [add_to |-> Append(add_to, candidate), pair_to |-> pair_to, log |-> "full"]
    ELSE [add_to  |-> Append(add_to, candidate),
          pair_to |-> PairLoop(pair_to, Len(add_to), candidate.prio,
                               pair_with, prio_left, 0),
          log     |-> "added"]

\* do_add_candidate: the new add_to, the new pair_to and the line logged.
do_add_candidate(candidate, add_to, pair_with, pair_to, prio_left) ==
    IF IsRedundant(add_to, candidate)
    THEN [add_to |-> add_to, pair_to |-> pair_to, log |-> "redundant"]
    ELSE IF PairsFull(pair_to)
    THEN [add_to |-> add_to, pair_to |-> pair_to, log |-> "full"]
    ELSE [add_to  |-> Append(add_to, candidate),
          pair_to |-> PairLoop(pair_to, Len(add_to), candidate.prio,
                               pair_with, prio_left, 0),
          log     |-> "added"]

(***************************************************************************)
(* add_local_candidate / add_remote_candidate.                             *)
(***************************************************************************)
Alive == last.res # "panic"

Call(op, res, out) == [op |-> op, res |-> res, out |-> out]

\* On local_end_of_candidates both operations only log a line (debug!) and go
\* on: neither branch returns.  add_remote_candidate tests the local flag too.
add_local_candidate(c) ==
    /\ Alive
    /\ UNCHANGED <<estimator, measurements>>
    /\ IF ice_lite /\ ~c.host
       THEN /\ last' = Call("add_local_candidate", "ice_lite", <<>>)
            /\ UNCHANGED <<local_candidates, candidate_pairs>>
       ELSE LET r == do_add_candidate(c, local_candidates, remote_candidates,
                                      candidate_pairs, controlling)
            IN  /\ local_candidates' = r.add_to
                /\ candidate_pairs' = r.pair_to
                /\ last' = Call("add_local_candidate", r.log, <<>>)
    /\ UNCHANGED <<controlling, ice_lite, local_end_of_candidates,
                   remote_end_of_candidates, conn_state, remote_creds, verified,
                   remote_candidates, trans_count>>

add_remote_candidate(c) ==
    /\ Alive
    /\ UNCHANGED <<estimator, measurements>>
    /\ LET r == do_add_candidate(c, remote_candidates, local_candidates,
                               candidate_pairs, ~controlling)
       IN  /\ remote_candidates' = r.add_to
           /\ candidate_pairs' = r.pair_to
           /\ last' = Call("add_remote_candidate", r.log, <<>>)
    /\ UNCHANGED <<controlling, ice_lite, local_end_of_candidates,
                   remote_end_of_candidates, conn_state, remote_creds, verified,
                   local_candidates, trans_count>>

(***************************************************************************)
(* can_set_controlling / set_controlling.                                  *)
(***************************************************************************)
\* The condition both operations test.
PairsEmpty == candidate_pairs = <<>>

can_set_controlling ==
    /\ Alive
    /\ UNCHANGED <<estimator, measurements>>
    /\ last' = Call("can_set_controlling", IF PairsEmpty THEN "true" ELSE "false", <<>>)
    /\ UNCHANGED <<controlling, ice_lite, local_end_of_candidates,
                   remote_end_of_candidates, conn_state, remote_creds, verified,
                   local_candidates, remote_candidates, candidate_pairs, trans_count>>

\* Mutant of set_controlling: the assertion is missing.
set_controlling_unchecked(c) ==
    /\ Alive
    /\ UNCHANGED <<estimator, measurements>>
    /\ controlling' = c
    /\ last' = Call("set_controlling", "ok", <<>>)
    /\ UNCHANGED <<ice_lite, local_end_of_candidates, remote_end_of_candidates,
                   conn_state, remote_creds, verified, local_candidates,
                   remote_candidates, candidate_pairs, trans_count>>

set_controlling(c) ==
    /\ Alive
    /\ UNCHANGED <<estimator, measurements>>
    /\ IF PairsEmpty
       THEN /\ controlling' = c
            /\ last' = Call("set_controlling", "ok", <<>>)
       ELSE /\ controlling' = controlling
            /\ last' = Call("set_controlling", "panic", <<>>)
    /\ UNCHANGED <<ice_lite, local_end_of_candidates, remote_end_of_candidates,
                   conn_state, remote_creds, verified, local_candidates,
                   remote_candidates, candidate_pairs, trans_count>>

(***************************************************************************)
(* End-of-candidates flags and remote credentials.                         *)
(***************************************************************************)
set_local_end_of_candidates ==
    /\ Alive
    /\ UNCHANGED <<estimator, measurements>>
    /\ local_end_of_candidates' = TRUE
    /\ last' = Call("set_local_end_of_candidates", "ok", <<>>)
    /\ UNCHANGED <<controlling, ice_lite, remote_end_of_candidates, conn_state,
                   remote_creds, verified, local_candidates, remote_candidates,
                   candidate_pairs, trans_count>>

set_remote_end_of_candidates ==
    /\ Alive
    /\ UNCHANGED <<estimator, measurements>>
    /\ remote_end_of_candidates' = TRUE
    /\ last' = Call("set_remote_end_of_candidates", "ok", <<>>)
    /\ UNCHANGED <<controlling, ice_lite, local_end_of_candidates, conn_state,
                   remote_creds, verified, local_candidates, remote_candidates,
                   candidate_pairs, trans_count>>

\* Local credentials, generated once by new().
LocalCreds == [username |-> "lu", password |-> "lp"]

\* The credential sets the remote SDP may bring.
CredPool == {[username |-> "ru1", password |-> "rp1"],
             [username |-> "ru2", password |-> "rp2"]}

\* HashSet<IceCreds>::insert: equality of credentials is on the username.
InsertCreds(set, creds) ==
    IF \E e \in set : e.username = creds.username THEN set ELSE set \cup {creds}

add_remote_creds(creds) ==
    /\ Alive
    /\ UNCHANGED <<estimator, measurements>>
    /\ remote_creds' = InsertCreds(remote_creds, creds)
    /\ last' = Call("add_remote_creds", "ok", <<>>)
    /\ UNCHANGED <<controlling, ice_lite, local_end_of_candidates,
                   remote_end_of_candidates, conn_state, verified, local_candidates,
                   remote_candidates, candidate_pairs, trans_count>>

(***************************************************************************)
(* STUN messages.  A message is what the agent reads of it: its kind, the  *)
(* two halves of its username as split_username returns them, the password *)
(* its integrity was computed with, and its transaction id.                *)
(***************************************************************************)
MsgKinds == {"request", "response", "failure"}

Usernames == {"lu", "ru1"}

Passwords == {"lp", "rp1", "rp2"}

\* Addresses a packet may arrive on (target) and the peer it comes from.
Addrs == {"a1", "a2"}

Sources == {"peer"}

\* The inbound messages of the model.  Only a response is looked up by its
\* transaction id, so the other kinds carry id 1.
StunMessages ==
    {m \in [kind : MsgKinds, local : Usernames, remote : Usernames,
            key : Passwords, trans_id : 1..MaxMsgTrans] :
        m.kind = "response" \/ m.trans_id = 1}

\* StunMessage::check_integrity.
check_integrity(stun, password) == stun.key = password

is_binding_response(stun) == stun.kind = "response"

is_binding_request(stun) == stun.kind = "request"

\* StunMessage::reply: the response to a request, with its transaction id.
reply(stun) == [stun EXCEPT !.kind = "response"]

\* StunMessage::to_bytes(password): the packet carries that integrity.
to_bytes(stun, password) == [stun EXCEPT !.key = password]

\* StunMessage::binding_request("<first>:<second>", trans_id).
binding_request(first, second, trans_id) ==
    [kind |-> "request", local |-> first, remote |-> second,
     key |-> "", trans_id |-> trans_id]

\* OutputQueue::enqueue(source, target, buffer).
Packet(source, target, buffer) == [source |-> source, target |-> target, buffer |-> buffer]

(***************************************************************************)
(* accepts_stun.                                                           *)
(***************************************************************************)
\* Mutant of IntegrityOk: a controlling agent tries only the password of
\* the credential set the message's peer username names.
IntegrityOkOfPeer(stun) ==
    IF controlling
    THEN \E creds \in remote_creds :
            creds.username = stun.local /\ check_integrity(stun, creds.password)
    ELSE check_integrity(stun, LocalCreds.password)

\* check_ok of accepts_stun.
IntegrityOk(stun) ==
    IF controlling
    THEN \E creds \in remote_creds : check_integrity(stun, creds.password)
    ELSE check_integrity(stun, LocalCreds.password)

\* Mutant of accepts_stun: the local username is not compared.
accepts_stun_any_local(stun) ==
    LET remote_username == IF controlling THEN stun.local ELSE stun.remote
        creds_in_remote_sdp == \E c \in remote_creds : c.username = remote_username
    IN  IF ~creds_in_remote_sdp THEN "Ok(false)"
        ELSE IF ~IntegrityOk(stun) THEN "Err(integrity)"
        ELSE "Ok(true)"

\* accepts_stun: the Result it returns.
accepts_stun(stun) ==
    LET local_username  == IF controlling THEN stun.remote ELSE stun.local
        remote_username == IF controlling THEN stun.local ELSE stun.remote
        creds_in_remote_sdp == \E c \in remote_creds : c.username = remote_username
    IN  IF ~creds_in_remote_sdp THEN "Ok(false)"
        ELSE IF local_username # LocalCreds.username THEN "Err(local)"
        ELSE IF ~IntegrityOk(stun) THEN "Err(integrity)"
        ELSE "Ok(true)"

IsErr(res) == res \in {"Err(local)", "Err(integrity)", "Err(transaction)"}

\* A call of accepts_stun by the session: it reads the agent and returns.
call_accepts_stun(target, stun) ==
    /\ Alive
    /\ UNCHANGED <<estimator, measurements>>
    /\ last' = Call("accepts_stun", accepts_stun(stun), <<>>)
    /\ UNCHANGED <<controlling, ice_lite, local_end_of_candidates,
                   remote_end_of_candidates, conn_state, remote_creds, verified,
                   local_candidates, remote_candidates, candidate_pairs, trans_count>>

(***************************************************************************)
(* Helpers over the pair list.                                             *)
(***************************************************************************)
\* Mutant of has_more_candidates_to_check: pairs with a check in flight
\* count, pairs that wait do not.
has_candidates_in_progress(pairs) ==
    \E i \in 1..Len(pairs) : pairs[i].state = "InProgress"

has_more_candidates_to_check(pairs) ==
    \E i \in 1..Len(pairs) : pairs[i].state = "Waiting"

count_candidates_in_progress(pairs) ==
    Cardinality({i \in 1..Len(pairs) : pairs[i].state = "InProgress"})

\* iter().find(pred): the position of the first match, 0 when there is none.
FirstWaiting(pairs) ==
    LET m == {i \in 1..Len(pairs) : pairs[i].state = "Waiting"}
    IN  IF m = {} THEN 0 ELSE CHOOSE i \in m : \A j \in m : i <= j

\* Mutant of FirstWithTrans: a response that matches no transaction id is
\* credited to the first pair that waits.
FirstWithTransOrWaiting(pairs, trans_id) ==
    LET m == {i \in 1..Len(pairs) : pairs[i].trans_id = trans_id}
    IN  IF m = {} THEN FirstWaiting(pairs) ELSE CHOOSE i \in m : \A j \in m : i <= j

\* Mutant of FirstWithTrans: the first pair with a check in flight is taken,
\* whatever its transaction id.
FirstInProgress(pairs, trans_id) ==
    LET m == {i \in 1..Len(pairs) : pairs[i].state = "InProgress"}
    IN  IF m = {} THEN 0 ELSE CHOOSE i \in m : \A j \in m : i <= j

FirstWithTrans(pairs, trans_id) ==
    LET m == {i \in 1..Len(pairs) : pairs[i].trans_id = trans_id}
    IN  IF m = {} THEN 0 ELSE CHOOSE i \in m : \A j \in m : i <= j

(***************************************************************************)
(* handle_stun.                                                            *)
(***************************************************************************)
\* `self.accepts_stun(target, &stun)?`: only an Err returns early; the bool
\* of an Ok is dropped.
handle_stun(source, target, stun) ==
    /\ Alive
    /\ UNCHANGED <<estimator, measurements>>
    /\ LET acc == accepts_stun(stun)
           conn == IF has_more_candidates_to_check(candidate_pairs)
                   THEN "Connected" ELSE "Completed"
           hit == FirstWithTrans(candidate_pairs, stun.trans_id)
       IN  IF IsErr(acc)
           THEN /\ last' = Call("handle_stun", acc, <<>>)
                /\ UNCHANGED <<verified, conn_state, candidate_pairs>>
           ELSE /\ verified' = verified \cup {target}
                /\ conn_state' = conn
                /\ IF is_binding_response(stun)
                   THEN IF hit # 0
                        THEN /\ candidate_pairs' =
                                  [candidate_pairs EXCEPT ![hit].state = "Succeeded"]
                             /\ last' = Call("handle_stun", "Ok", <<>>)
                        ELSE /\ UNCHANGED candidate_pairs
                             /\ last' = Call("handle_stun", "Err(transaction)", <<>>)
                   ELSE IF ~is_binding_request(stun)
                   THEN /\ UNCHANGED candidate_pairs
                        /\ last' = Call("handle_stun", "panic", <<>>)
                   ELSE /\ UNCHANGED candidate_pairs
                        /\ last' = Call("handle_stun", "Ok",
                               <<Packet(target, source,
                                        to_bytes(reply(stun), LocalCreds.password))>>)
    /\ UNCHANGED <<controlling, ice_lite, local_end_of_candidates,
                   remote_end_of_candidates, remote_creds, local_candidates,
                   remote_candidates, trans_count>>

(***************************************************************************)
(* drive_stun_controlling.                                                 *)
(***************************************************************************)
MAX_CONCURRENT == 10

\* Mutant of BelowConcurrencyCap: the loop runs while the count is <= the cap.
BelowConcurrencyCapInclusive(pairs) ==
    count_candidates_in_progress(pairs) <= MAX_CONCURRENT

\* The loop condition of drive_stun_controlling.
BelowConcurrencyCap(pairs) == count_candidates_in_progress(pairs) < MAX_CONCURRENT

\* Mutant of send_binding_request: the transaction id is not stored on the
\* pair.
send_binding_request_untracked(pairs, next, time, rc, trans_id) ==
    LET p == pairs[next]
        msg == binding_request(rc.username, LocalCreds.username, trans_id)
        buffer == to_bytes(msg, rc.password)
    IN  [pairs  |-> [pairs EXCEPT ![next] = [p EXCEPT !.state = "InProgress",
                                                      !.attempted = time]],
         packet |-> Packet(local_candidates[p.local_idx + 1].addr,
                           remote_candidates[p.remote_idx + 1].addr, buffer)]

\* Mutant of send_binding_request: the request is enqueued from the remote
\* candidate's address to the local one's.
send_binding_request_reversed(pairs, next, time, rc, trans_id) ==
    LET p == pairs[next]
        msg == binding_request(rc.username, LocalCreds.username, trans_id)
        buffer == to_bytes(msg, rc.password)
    IN  [pairs  |-> [pairs EXCEPT ![next] = [p EXCEPT !.state = "InProgress",
                                                      !.attempted = time,
                                                      !.trans_id = trans_id]],
         packet |-> Packet(remote_candidates[p.remote_idx + 1].addr,
                           local_candidates[p.local_idx + 1].addr, buffer)]

\* send_binding_request on pair `next` (a position of the list): the pair
\* after it and the packet enqueued.  random_id hands out a fresh id.
send_binding_request(pairs, next, time, rc, trans_id) ==
    LET p == pairs[next]
        msg == binding_request(rc.username, LocalCreds.username, trans_id)
        buffer == to_bytes(msg, rc.password)
    IN  [pairs  |-> [pairs EXCEPT ![next] = [p EXCEPT !.state = "InProgress",
                                                      !.attempted = time,
                                                      !.trans_id = trans_id]],
         packet |-> Packet(local_candidates[p.local_idx + 1].addr,
                           remote_candidates[p.remote_idx + 1].addr, buffer)]

\* The while loop: the pairs, the packets enqueued, the ids used and how the
\* loop ended ("cap", "none_waiting" or "panic").  creds is what
\* remote_creds.iter().next() gives: a set with one element, or none.  The
\* loop panics on expect() without credentials, on an index outside a
\* candidate list and on the assertions of send_binding_request.  One turn
\* of the loop sends one request; the singleton set holds what that send
\* produced, so that the next turn starts from its value.
RECURSIVE DriveLoop(_, _, _, _, _)
DriveLoop(pairs, out, count, time, creds) ==
    IF ~BelowConcurrencyCap(pairs)
    THEN [pairs |-> pairs, out |-> out, count |-> count, end |-> "cap"]
    ELSE LET next == FirstWaiting(pairs)
         IN  IF next = 0
             THEN [pairs |-> pairs, out |-> out, count |-> count, end |-> "none_waiting"]
             ELSE IF \/ creds = {}
                     \/ pairs[next].local_idx >= Len(local_candidates)
                     \/ pairs[next].remote_idx >= Len(remote_candidates)
                     \/ pairs[next].attempted # None
             THEN [pairs |-> pairs, out |-> out, count |-> count, end |-> "panic"]
             ELSE LET rc == CHOOSE c \in creds : TRUE
                  IN  CHOOSE r \in
                        {DriveLoop(sent.pairs, Append(out, sent.packet),
                                   count + 1, time, creds) :
                            sent \in {send_binding_request(pairs, next, time,
                                                           rc, count + 1)}} : TRUE

\* Mutant of FirstCreds: without remote credentials an empty credential set
\* is used instead of failing.
FirstCredsOrDefault ==
    IF remote_creds = {}
    THEN {{[username |-> "", password |-> ""]}}
    ELSE {{c} : c \in remote_creds}

\* The values remote_creds.iter().next() may give: a HashSet iterates in an
\* order of its own.
FirstCreds == IF remote_creds = {} THEN {{}} ELSE {{c} : c \in remote_creds}

drive_stun_controlling(time) ==
    /\ Alive
    /\ UNCHANGED <<estimator, measurements>>
    /\ IF ~controlling \/ ~should_check(conn_state)
       THEN /\ last' = Call("drive_stun_controlling", "Ok", <<>>)
            /\ UNCHANGED <<conn_state, candidate_pairs, trans_count>>
       ELSE \E creds \in FirstCreds :
            LET entered == IF conn_state = "New" THEN "Checking" ELSE conn_state
                r == DriveLoop(candidate_pairs, <<>>, trans_count, time, creds)
            IN  /\ candidate_pairs' = r.pairs
                /\ trans_count' = r.count
                /\ conn_state' = IF r.end = "none_waiting" /\ entered = "Connected"
                                 THEN "Completed" ELSE entered
                /\ last' = Call("drive_stun_controlling",
                                IF r.end = "panic" THEN "panic" ELSE "Ok", r.out)
    /\ UNCHANGED <<controlling, ice_lite, local_end_of_candidates,
                   remote_end_of_candidates, remote_creds, verified,
                   local_candidates, remote_candidates>>

(***************************************************************************)
(* The agent from new(): every operation, small inputs.                    *)
(***************************************************************************)
\* The caller's clock gives drive_stun_controlling a time in 1..MaxTime.
MaxTime == 1

\* The value of the estimator variable while no estimator has been created,
\* which is as long as no measurement has been given.
NoEstimator == [S |-> 0, scaled |-> [hi |-> 0, lo |-> 0]]

Init ==
    /\ controlling = FALSE
    /\ ice_lite \in BOOLEAN
    /\ local_end_of_candidates = FALSE
    /\ remote_end_of_candidates = FALSE
    /\ conn_state = "New"
    /\ remote_creds = {}
    /\ verified = {}
    /\ local_candidates = <<>>
    /\ remote_candidates = <<>>
    /\ candidate_pairs = <<>>
    /\ trans_count = 0
    /\ estimator = NoEstimator
    /\ measurements = <<>>
    /\ last = Call("new", "ok", <<>>)

\* Candidate store, pairing and role.
NextPairing ==
    \/ \E c \in BOOLEAN : set_controlling(c)
    \/ can_set_controlling
    \/ \E c \in Pool : add_local_candidate(c)
    \/ \E c \in Pool : add_remote_candidate(c)
    \/ set_local_end_of_candidates
    \/ set_remote_end_of_candidates

\* Credentials, inbound STUN and the check driver.
NextChecks ==
    \/ \E creds \in CredPool : add_remote_creds(creds)
    \/ \E source \in Sources, target \in Addrs, stun \in StunMessages :
          handle_stun(source, target, stun)
    \/ \E time \in 1..MaxTime : drive_stun_controlling(time)

\* The session asking whether a message is for this agent.
NextAccepts ==
    \E target \in Addrs, stun \in StunMessages : call_accepts_stun(target, stun)

Next == NextPairing \/ NextChecks \/ NextAccepts

Spec == Init /\ [][Next]_vars

\* The candidate store alone: no credentials, no STUN traffic, no checks.
SpecPairing == Init /\ [][NextPairing]_vars

\* The check driver on an agent built with new(id, false): role,
\* credentials, insertions, inbound STUN and drive calls in any order.
InitChecks == Init /\ ~ice_lite

NextDriven ==
    \/ \E c \in BOOLEAN : set_controlling(c)
    \/ \E c \in Pool : add_local_candidate(c)
    \/ \E c \in Pool : add_remote_candidate(c)
    \/ NextChecks

SpecChecks == InitChecks /\ [][NextDriven]_vars

\* Authentication on an agent without candidates: role, credentials,
\* accepts_stun and handle_stun calls in any order.
NextAuth ==
    \/ \E c \in BOOLEAN : set_controlling(c)
    \/ \E creds \in CredPool : add_remote_creds(creds)
    \/ NextAccepts
    \/ \E source \in Sources, target \in Addrs, stun \in StunMessages :
          handle_stun(source, target, stun)

SpecAuth == InitChecks /\ [][NextAuth]_vars

(***************************************************************************)
(* The agent near the 100-pair limit.  The initial states are those the    *)
(* agent is in after new(id, false), set_controlling(c), add_remote_creds  *)
(* and add_local_candidate of candidates 1..nl followed by                 *)
(* add_remote_candidate of candidates 1..nr, for the shapes <<nl, nr>>     *)
(* below, computed with do_add_candidate.                                  *)
(***************************************************************************)
\* Candidates 1..BulkCands may be offered on each side.
BulkCands == 12

BulkPool == {Cand(k) : k \in 1..BulkCands}

SeedShapes == {<<9, 11>>, <<10, 10>>}

\* Inbound messages near the limit: requests and responses with the
\* usernames and passwords either role accepts, arriving on one address.
BulkMessages ==
    {m \in StunMessages :
        m.kind # "failure" /\ m.local # m.remote /\ m.key \in {"lp", "rp1"}}

BulkAddrs == {"a1"}

RECURSIVE Seeded(_, _, _)
Seeded(nl, nr, c) ==
    IF nr > 0
    THEN LET s == Seeded(nl, nr - 1, c)
             r == do_add_candidate(Cand(nr), s.remote, s.local, s.pairs, ~c)
         IN  [local |-> s.local, remote |-> r.add_to, pairs |-> r.pair_to]
    ELSE IF nl > 0
    THEN LET s == Seeded(nl - 1, 0, c)
             r == do_add_candidate(Cand(nl), s.local, s.remote, s.pairs, c)
         IN  [local |-> r.add_to, remote |-> s.remote, pairs |-> r.pair_to]
    ELSE [local |-> <<>>, remote |-> <<>>, pairs |-> <<>>]

InitBulk ==
    \E shape \in SeedShapes, c \in BOOLEAN :
        LET s == Seeded(shape[1], shape[2], c)
        IN  /\ controlling = c
            /\ ice_lite = FALSE
            /\ local_end_of_candidates = FALSE
            /\ remote_end_of_candidates = FALSE
            /\ conn_state = "New"
            /\ remote_creds = {[username |-> "ru1", password |-> "rp1"]}
            /\ verified = {}
            /\ local_candidates = s.local
            /\ remote_candidates = s.remote
            /\ candidate_pairs = s.pairs
            /\ trans_count = 0
            /\ estimator = NoEstimator
            /\ measurements = <<>>
            /\ last = Call("add_remote_candidate", "added", <<>>)

NextBulk ==
    \/ \E c \in BulkPool : add_local_candidate(c)
    \/ \E c \in BulkPool : add_remote_candidate(c)
    \/ \E source \in Sources, target \in BulkAddrs, stun \in BulkMessages :
          handle_stun(source, target, stun)
    \/ \E time \in 1..MaxTime : drive_stun_controlling(time)

SpecBulk == InitBulk /\ [][NextBulk]_vars

(***************************************************************************)
(* Inbound STUN against a small candidate store: the agent from            *)
(* new(id, false) with role, credentials, insertions and drive calls, and  *)
(* handle_stun on the requests and responses of BulkMessages arriving on   *)
(* one address.  Two candidates may be offered on each side, one of        *)
(* priority 100 and one of priority 50, so up to four pairs are checked.   *)
(***************************************************************************)
HandlePool == {Cand(1), Cand(2)}

NextHandle ==
    \/ \E c \in BOOLEAN : set_controlling(c)
    \/ \E creds \in CredPool : add_remote_creds(creds)
    \/ \E c \in HandlePool : add_local_candidate(c)
    \/ \E c \in HandlePool : add_remote_candidate(c)
    \/ \E source \in Sources, target \in BulkAddrs, stun \in BulkMessages :
          handle_stun(source, target, stun)
    \/ \E time \in 1..MaxTime : drive_stun_controlling(time)

SpecHandle == InitChecks /\ [][NextHandle]_vars

(***************************************************************************)
(* The check driver at the concurrency cap.  The initial states are those  *)
(* of a controlling agent after new(id, false), set_controlling(true),     *)
(* add_remote_creds and the insertions of the shapes below: eleven or      *)
(* twelve pairs, one or two more than may be in flight.                    *)
(***************************************************************************)
CapShapes == {<<1, 11>>, <<1, 12>>, <<2, 6>>}

InitCap ==
    \E shape \in CapShapes :
        LET s == Seeded(shape[1], shape[2], TRUE)
        IN  /\ controlling = TRUE
            /\ ice_lite = FALSE
            /\ local_end_of_candidates = FALSE
            /\ remote_end_of_candidates = FALSE
            /\ conn_state = "New"
            /\ remote_creds = {[username |-> "ru1", password |-> "rp1"]}
            /\ verified = {}
            /\ local_candidates = s.local
            /\ remote_candidates = s.remote
            /\ candidate_pairs = s.pairs
            /\ trans_count = 0
            /\ estimator = NoEstimator
            /\ measurements = <<>>
            /\ last = Call("add_remote_candidate", "added", <<>>)

NextCap ==
    \/ \E source \in Sources, target \in BulkAddrs, stun \in BulkMessages :
          handle_stun(source, target, stun)
    \/ \E time \in 1..MaxTime : drive_stun_controlling(time)

SpecCap == InitCap /\ [][NextCap]_vars

(***************************************************************************)
(* Progress of the checks.  A controlling agent with remote credentials    *)
(* (the state after new(id, false), set_controlling(true) and              *)
(* add_remote_creds); the session inserts candidates at any time and calls *)
(* drive_stun_controlling again and again; the peer answers every request  *)
(* in flight with a response the agent accepts.                            *)
(***************************************************************************)
InitLive ==
    /\ controlling = TRUE
    /\ ice_lite = FALSE
    /\ local_end_of_candidates = FALSE
    /\ remote_end_of_candidates = FALSE
    /\ conn_state = "New"
    /\ remote_creds = {[username |-> "ru1", password |-> "rp1"]}
    /\ verified = {}
    /\ local_candidates = <<>>
    /\ remote_candidates = <<>>
    /\ candidate_pairs = <<>>
    /\ trans_count = 0
    /\ estimator = NoEstimator
    /\ measurements = <<>>
    /\ last = Call("add_remote_creds", "ok", <<>>)

\* The peer's response to the request with transaction id trans_id, as a
\* controlling agent reads it.
ResponseTo(trans_id) ==
    [kind |-> "response", local |-> "ru1", remote |-> "lu",
     key |-> "rp1", trans_id |-> trans_id]

\* handle_stun on the response to a request in flight.
Answered ==
    \E i \in 1..Len(candidate_pairs), target \in BulkAddrs :
        /\ candidate_pairs[i].state = "InProgress"
        /\ handle_stun("peer", target, ResponseTo(candidate_pairs[i].trans_id))

Driven == \E time \in 1..MaxTime : drive_stun_controlling(time)

NextLive ==
    \/ \E c \in HandlePool : add_local_candidate(c)
    \/ \E c \in HandlePool : add_remote_candidate(c)
    \/ Driven
    \/ Answered

SpecLive ==
    InitLive /\ [][NextLive]_vars /\ WF_vars(Driven) /\ WF_vars(Answered)

(***************************************************************************)
(* Micros (src/src/latency/mod.rs): a number of microseconds in a u32.     *)
(* The value hi * 2^16 + lo is kept as its two 16-bit halves, so that      *)
(* every u32 has a representation and each operation below is the          *)
(* source's operation on 32 bits.                                          *)
(***************************************************************************)
Half == 65536

Micros(hi, lo) == [hi |-> hi, lo |-> lo]

ZERO == Micros(0, 0)

\* u32::MAX, where the saturating operations stop.
U32_MAX == Micros(Half - 1, Half - 1)

RECURSIVE Pow2(_)
Pow2(n) == IF n = 0 THEN 1 ELSE 2 * Pow2(n - 1)

\* The derived Ord of Micros: the order of the u32.
cmp(a, b) ==
    IF a.hi # b.hi
    THEN IF a.hi < b.hi THEN "Less" ELSE "Greater"
    ELSE IF a.lo = b.lo THEN "Equal"
         ELSE IF a.lo < b.lo THEN "Less" ELSE "Greater"

\* self.0 << rhs, for rhs < 16: the bits moved past bit 31 are lost.
shl(a, rhs) ==
    Micros((a.hi * Pow2(rhs) + (a.lo * Pow2(rhs)) \div Half) % Half,
           (a.lo * Pow2(rhs)) % Half)

\* self.0 >> rhs, for rhs < 16.
shr(a, rhs) ==
    Micros(a.hi \div Pow2(rhs),
           ((a.hi % Pow2(rhs)) * Half + a.lo) \div Pow2(rhs))

\* self.0 - rhs.0 modulo 2^32.  record calls it only with self > rhs, where
\* the difference is exact in every build.
sub(a, b) ==
    LET borrow == IF a.lo < b.lo THEN 1 ELSE 0
    IN  Micros((a.hi - b.hi - borrow + Half) % Half, (a.lo - b.lo + Half) % Half)

saturating_sub(a, b) == IF cmp(a, b) = "Less" THEN ZERO ELSE sub(a, b)

saturating_add(a, b) ==
    LET carry == (a.lo + b.lo) \div Half
        hi    == a.hi + b.hi + carry
    IN  IF hi >= Half THEN U32_MAX ELSE Micros(hi, (a.lo + b.lo) % Half)

(***************************************************************************)
(* ScaledUnsignedEstimator<S, Micros> (src/src/latency/estimator.rs).      *)
(***************************************************************************)
\* The instantiations of LatencyEstimator: 3 for the mean, 2 for the
\* deviation.
Shifts == {2, 3}

new(S, value) == [S |-> S, scaled |-> shl(value, S)]

smoothed(e) == shr(e.scaled, e.S)

\* record: the estimator after the call and the value returned.
record(e, value) ==
    LET mean == smoothed(e)
    IN  CASE cmp(value, mean) = "Less" ->
                LET abs_error == sub(mean, value)
                IN  [estimator |-> [e EXCEPT !.scaled = saturating_sub(e.scaled, abs_error)],
                     abs_error |-> abs_error]
          [] cmp(value, mean) = "Equal" ->
                [estimator |-> e, abs_error |-> ZERO]
          [] cmp(value, mean) = "Greater" ->
                LET abs_error == sub(value, mean)
                IN  [estimator |-> [e EXCEPT !.scaled = saturating_add(e.scaled, abs_error)],
                     abs_error |-> abs_error]

\* The measurements fed to the estimator: small ones, those of the unit
\* test, and the ones around 2^(32-S) and u32::MAX.
Samples == {ZERO, Micros(0, 1), Micros(0, 2500), Micros(0, 2800),
            Micros(8191, 65535), Micros(8192, 0), Micros(16384, 0), U32_MAX}

\* An estimator is given at most MaxMeasurements measurements.
MaxMeasurements == 3

IceUnchanged ==
    UNCHANGED <<controlling, ice_lite, local_end_of_candidates,
                remote_end_of_candidates, conn_state, remote_creds, verified,
                local_candidates, remote_candidates, candidate_pairs, trans_count>>

call_new(S, value) ==
    /\ Alive
    /\ measurements = <<>>
    /\ estimator' = new(S, value)
    /\ measurements' = <<value>>
    /\ last' = Call("ScaledUnsignedEstimator::new", "ok", <<>>)
    /\ IceUnchanged

call_record(value) ==
    /\ Alive
    /\ measurements # <<>>
    /\ Len(measurements) < MaxMeasurements
    /\ LET r == record(estimator, value)
       IN  /\ estimator' = r.estimator
           /\ last' = Call("record", "ok", <<r.abs_error>>)
    /\ measurements' = Append(measurements, value)
    /\ IceUnchanged

NextEstimator ==
    \/ \E S \in Shifts, value \in Samples : call_new(S, value)
    \/ \E value \in Samples : call_record(value)

SpecEstimator == InitChecks /\ [][NextEstimator]_vars

(***************************************************************************)
(* Claims.                                                                 *)
(***************************************************************************)
InProgressCount == count_candidates_in_progress(candidate_pairs)

\* C1: after every insertion the pair list is sorted non-increasing by
\* priority: pairs[i].prio >= pairs[i+1].prio for every adjacent i.
C1_SortedNonIncreasing ==
    \A i \in 1..(Len(candidate_pairs) - 1) :
        candidate_pairs[i].prio >= candidate_pairs[i + 1].prio

\* A u64 as its two 32-bit words: the value is hi * 2^32 + lo.
Words(v) ==
    [hi |-> (v \div 65536) \div 65536,
     lo |-> (v % 65536) + 65536 * ((v \div 65536) % 65536)]

\* 4294967296 * min(G, D) + 2 * max(G, D) + (1 if G > D else 0), in words.
FormulaPrio(g, d) ==
    [hi |-> Min(g, d), lo |-> 2 * Max(g, d) + (IF g > d THEN 1 ELSE 0)]

PrioWords(pairs) == {Words(pairs[i].prio) : i \in 1..Len(pairs)}

\* C2: every pair an insertion forms gets the priority of the formula, G
\* being the priority of the controlling side's candidate (the local one
\* when the agent is controlling, the remote one when it is controlled).
C2_PairPriority ==
    [][\A c \in Pool :
        /\ (add_local_candidate(c) /\ local_candidates' # local_candidates)
             => PrioWords(candidate_pairs') = PrioWords(candidate_pairs) \cup
                  {IF controlling THEN FormulaPrio(c.prio, r.prio)
                                  ELSE FormulaPrio(r.prio, c.prio) :
                      r \in Range(remote_candidates)}
        /\ (add_remote_candidate(c) /\ remote_candidates' # remote_candidates)
             => PrioWords(candidate_pairs') = PrioWords(candidate_pairs) \cup
                  {IF controlling THEN FormulaPrio(l.prio, c.prio)
                                  ELSE FormulaPrio(c.prio, l.prio) :
                      l \in Range(local_candidates)}]_vars

\* The position of the pair the k-th packet of the call just made was sent for.
SentFor(k) ==
    CHOOSE i \in 1..Len(candidate_pairs') :
        candidate_pairs'[i].trans_id = last'.out[k].buffer.trans_id

\* C3: whenever drive_stun_controlling moves a pair from Waiting to
\* InProgress, no pair that is Waiting at that moment has a strictly higher
\* priority.
C3_HighestWaitingFirst ==
    [][last'.op = "drive_stun_controlling" =>
        \A k \in 1..Len(last'.out) :
            \A j \in 1..Len(candidate_pairs) :
                (/\ candidate_pairs[j].state = "Waiting"
                 /\ \A e \in 1..(k - 1) : SentFor(e) # j)
                => candidate_pairs[j].prio <= candidate_pairs[SentFor(k)].prio]_vars

\* C4: in every reachable state at most 10 pairs are InProgress.
C4_AtMostTenInProgress == InProgressCount <= 10

\* C4 witness: ten pairs are InProgress while others wait, and a response
\* has been handled.
C4_Witness ==
    /\ InProgressCount = 10
    /\ has_more_candidates_to_check(candidate_pairs)
    /\ \E i \in 1..Len(candidate_pairs) : candidate_pairs[i].state = "Succeeded"

\* C5 (as stated): the pair list never holds more than 100 pairs.
C5_AtMost100Pairs == Len(candidate_pairs) <= 100

\* C5 (amended): the pair list grows only in a call that starts with fewer
\* than 100 pairs, and then to at most 99 plus the number of candidates on
\* the larger side.
C5_GrowsOnlyBelow100 ==
    [][Len(candidate_pairs') > Len(candidate_pairs) =>
        /\ Len(candidate_pairs) < 100
        /\ Len(candidate_pairs') <=
              99 + Max(Len(local_candidates'), Len(remote_candidates'))]_vars

\* C5 witness: an insertion has taken the list beyond 100 pairs.
C5_Witness ==
    /\ Len(candidate_pairs) > 100
    /\ last.op \in {"add_local_candidate", "add_remote_candidate"}
    /\ last.res = "added"

\* C6 (as stated): with 100 or more pairs, adding a new candidate still
\* appends it to its candidate list and adds no pair.
C6_StoredAtCap ==
    [][\A c \in BulkPool :
        /\ (/\ Len(candidate_pairs) >= 100
            /\ c \notin Range(local_candidates)
            /\ last'.op = "add_local_candidate"
            /\ add_local_candidate(c))
             => /\ local_candidates' = Append(local_candidates, c)
                /\ candidate_pairs' = candidate_pairs
        /\ (/\ Len(candidate_pairs) >= 100
            /\ c \notin Range(remote_candidates)
            /\ last'.op = "add_remote_candidate"
            /\ add_remote_candidate(c))
             => /\ remote_candidates' = Append(remote_candidates, c)
                /\ candidate_pairs' = candidate_pairs]_vars

\* C6 (amended): with 100 or more pairs, a new candidate is ignored: it is
\* not stored, and both candidate lists and the pair list stay as they are.
C6_IgnoredAtCap ==
    [][\A c \in BulkPool :
        /\ (/\ Len(candidate_pairs) >= 100
            /\ c \notin Range(local_candidates)
            /\ last'.op = "add_local_candidate"
            /\ add_local_candidate(c))
             => UNCHANGED <<local_candidates, remote_candidates, candidate_pairs>>
        /\ (/\ Len(candidate_pairs) >= 100
            /\ c \notin Range(remote_candidates)
            /\ last'.op = "add_remote_candidate"
            /\ add_remote_candidate(c))
             => UNCHANGED <<local_candidates, remote_candidates, candidate_pairs>>]_vars

\* C6 witness: a new candidate was offered with the list at 100 or more.
C6_Witness ==
    /\ Len(candidate_pairs) >= 100
    /\ last.op \in {"add_local_candidate", "add_remote_candidate"}
    /\ last.res = "full"

\* The pairs that name local candidate i and remote candidate j (0-based).
PairsNaming(pairs, i, j) ==
    {k \in 1..Len(pairs) : pairs[k].local_idx = i /\ pairs[k].remote_idx = j}

\* C7: below the cap there is exactly one pair per (local, remote)
\* combination, and an insertion keeps the existing pairs and adds pairs
\* only between the new candidate and the candidates of the other side.
C7_OnePairPerCombination ==
    [][Len(candidate_pairs') < 100 =>
        /\ Len(candidate_pairs') = Len(local_candidates') * Len(remote_candidates')
        /\ \A i \in 0..(Len(local_candidates') - 1) :
             \A j \in 0..(Len(remote_candidates') - 1) :
                Cardinality(PairsNaming(candidate_pairs', i, j)) = 1
        /\ Range(candidate_pairs) \subseteq Range(candidate_pairs')
        /\ \A p \in Range(candidate_pairs') \ Range(candidate_pairs) :
             \/ /\ local_candidates' # local_candidates
                /\ p.local_idx = Len(local_candidates') - 1
             \/ /\ remote_candidates' # remote_candidates
                /\ p.remote_idx = Len(remote_candidates') - 1]_vars

IsPrefix(s, t) == Len(s) <= Len(t) /\ \A i \in 1..Len(s) : s[i] = t[i]

\* C8: adding a candidate equal to one already in the same side's list
\* changes neither candidate list nor the pair list, and no call shrinks
\* or reorders a candidate list.
C8_DuplicateRejected ==
    [][/\ IsPrefix(local_candidates, local_candidates')
       /\ IsPrefix(remote_candidates, remote_candidates')
       /\ \A c \in Pool :
            /\ (add_local_candidate(c) /\ c \in Range(local_candidates))
                 => UNCHANGED <<local_candidates, remote_candidates, candidate_pairs>>
            /\ (add_remote_candidate(c) /\ c \in Range(remote_candidates))
                 => UNCHANGED <<local_candidates, remote_candidates, candidate_pairs>>]_vars

\* C8 witness: a duplicate was offered while pairs exist.
C8_Witness ==
    /\ last.op \in {"add_local_candidate", "add_remote_candidate"}
    /\ last.res = "redundant"
    /\ candidate_pairs # <<>>

\* C9: once end-of-candidates has been signalled for a side, adding a
\* candidate on that side changes neither its candidate list nor the pairs.
C9_IgnoredAfterEnd ==
    [][\A c \in Pool :
        /\ (local_end_of_candidates /\ add_local_candidate(c))
             => UNCHANGED <<local_candidates, candidate_pairs>>
        /\ (remote_end_of_candidates /\ add_remote_candidate(c))
             => UNCHANGED <<remote_candidates, candidate_pairs>>]_vars

\* C10: the role never changes while pairs exist; can_set_controlling
\* returns true exactly when there are none; set_controlling with pairs
\* present panics and leaves the role as it is.
C10_RoleFixedWithPairs ==
    [][/\ candidate_pairs # <<>> => controlling' = controlling
       /\ last'.op = "can_set_controlling"
            => (last'.res = "true" <=> candidate_pairs = <<>>)
       /\ (last'.op = "set_controlling" /\ candidate_pairs # <<>>)
            => (last'.res = "panic" /\ controlling' = controlling)
       /\ (last'.op = "set_controlling" /\ candidate_pairs = <<>>)
            => last'.res = "ok"]_vars

\* C10 witness: set_controlling was called with pairs present.
C10_Witness ==
    /\ last.op = "set_controlling"
    /\ last.res = "panic"
    /\ candidate_pairs # <<>>

\* C11 (as stated): once an insertion has stored a candidate, the pair list
\* is non-empty and a set_controlling call is rejected.
C11_FailsAfterAnyInsertion ==
    [][(local_candidates # <<>> \/ remote_candidates # <<>>) =>
        /\ candidate_pairs # <<>>
        /\ last'.op = "set_controlling" => last'.res = "panic"]_vars

\* C11 (amended): the pair list is non-empty exactly when a candidate is
\* stored on each side, and set_controlling is rejected exactly then; with
\* candidates stored on one side only it still succeeds.
C11_FailsOncePaired ==
    [][/\ candidate_pairs # <<>>
            <=> (local_candidates # <<>> /\ remote_candidates # <<>>)
       /\ last'.op = "set_controlling" =>
            /\ last'.res = "panic"
                 <=> (local_candidates # <<>> /\ remote_candidates # <<>>)
            /\ last'.res = "panic" => controlling' = controlling]_vars

\* C11 witness: set_controlling was rejected with a candidate stored on each
\* side.
C11_Witness ==
    /\ last.op = "set_controlling"
    /\ last.res = "panic"
    /\ local_candidates # <<>>
    /\ remote_candidates # <<>>

\* set_controlling succeeded after an insertion stored a candidate.
C11_AcceptedAfterInsertion ==
    /\ last.op = "set_controlling"
    /\ last.res = "ok"
    /\ (local_candidates # <<>> \/ remote_candidates # <<>>)

\* The two halves of a message's username as the agent's role maps them.
MyUsername(stun) == IF controlling THEN stun.remote ELSE stun.local

PeerUsername(stun) == IF controlling THEN stun.local ELSE stun.remote

PeerKnown(stun) == \E c \in remote_creds : c.username = PeerUsername(stun)

\* C12: a message whose peer username matches no known remote credential
\* set makes accepts_stun return Ok(false), and handle_stun for it returns
\* early: verified set, connection state and pairs unchanged, nothing
\* enqueued.
C12_UnknownPeerNoMutation ==
    [][\A target \in Addrs, stun \in StunMessages :
        (/\ ~PeerKnown(stun)
         /\ last'.op = "handle_stun"
         /\ handle_stun("peer", target, stun))
          => /\ accepts_stun(stun) = "Ok(false)"
             /\ UNCHANGED <<verified, conn_state, candidate_pairs>>
             /\ last'.out = <<>>
             /\ last'.res # "panic"]_vars

\* The authentication errors of accepts_stun.
AuthErrors == {"Err(local)", "Err(integrity)"}

\* C13 (as stated): for every message whose local-username segment differs
\* from the agent's local username, accepts_stun returns an authentication
\* error, whatever the peer-username segment is.
C13_LocalMismatchIsError ==
    \A stun \in StunMessages :
        MyUsername(stun) # LocalCreds.username => accepts_stun(stun) \in AuthErrors

\* C13 (amended): for every message whose local-username segment differs
\* from the agent's local username, accepts_stun returns the username
\* mismatch error when the peer-username segment names a known remote
\* credential set, and Ok(false) when it names none.
C13_LocalMismatchOfKnownPeer ==
    \A stun \in StunMessages :
        MyUsername(stun) # LocalCreds.username =>
            accepts_stun(stun) = IF PeerKnown(stun) THEN "Err(local)" ELSE "Ok(false)"

\* C13 witness: accepts_stun has returned the username mismatch error.
C13_Witness ==
    /\ last.op = "accepts_stun"
    /\ last.res = "Err(local)"
    /\ remote_creds # {}

\* The passwords integrity is validated against: those of the known remote
\* credential sets for a controlling agent, the local one for a controlled
\* agent.
ValidatingPasswords ==
    IF controlling THEN {c.password : c \in remote_creds} ELSE {LocalCreds.password}

\* C14: for a message whose usernames match, accepts_stun returns Ok(true)
\* exactly when the integrity validates against one of the validating
\* passwords, and an authentication error (never Ok(false)) otherwise.
C14_IntegrityDecides ==
    \A stun \in StunMessages :
        (PeerKnown(stun) /\ MyUsername(stun) = LocalCreds.username) =>
            accepts_stun(stun) = IF stun.key \in ValidatingPasswords
                                 THEN "Ok(true)" ELSE "Err(integrity)"

\* C14 witness: a controlling agent that knows two remote credential sets
\* has accepted a message.
C14_Witness ==
    /\ last.op = "accepts_stun"
    /\ last.res = "Ok(true)"
    /\ controlling
    /\ Cardinality(remote_creds) = 2

\* accepts_stun has reported an integrity failure.
C14_RejectedWitness ==
    /\ last.op = "accepts_stun"
    /\ last.res = "Err(integrity)"

\* The pairs whose stored transaction id is trans_id.
PairsWithTrans(pairs, trans_id) ==
    {i \in 1..Len(pairs) : pairs[i].trans_id = trans_id}

\* C15: handle_stun on an accepted binding response whose transaction id
\* is the stored one of some pair returns Ok and sets exactly that one pair
\* to Succeeded; every other pair keeps its check state.
C15_ResponseAdvancesOnePair ==
    [][\A target \in BulkAddrs, stun \in BulkMessages :
        (/\ last'.op = "handle_stun"
         /\ stun.kind = "response"
         /\ PairsWithTrans(candidate_pairs, stun.trans_id) # {}
         /\ accepts_stun(stun) = "Ok(true)"
         /\ handle_stun("peer", target, stun))
          => /\ last'.res = "Ok"
             /\ Cardinality(PairsWithTrans(candidate_pairs, stun.trans_id)) = 1
             /\ Len(candidate_pairs') = Len(candidate_pairs)
             /\ \A i \in 1..Len(candidate_pairs) :
                  candidate_pairs'[i] =
                     IF candidate_pairs[i].trans_id = stun.trans_id
                     THEN [candidate_pairs[i] EXCEPT !.state = "Succeeded"]
                     ELSE candidate_pairs[i]]_vars

\* C15 witness: an accepted response has taken one pair to Succeeded while
\* another pair's check is still in flight.
C15_Witness ==
    /\ last.op = "handle_stun"
    /\ last.res = "Ok"
    /\ last.out = <<>>
    /\ \E stun \in BulkMessages, i \in 1..Len(candidate_pairs) :
          /\ stun.kind = "response"
          /\ accepts_stun(stun) = "Ok(true)"
          /\ candidate_pairs[i].trans_id = stun.trans_id
          /\ candidate_pairs[i].state = "Succeeded"
    /\ \E j \in 1..Len(candidate_pairs) : candidate_pairs[j].state = "InProgress"

\* C16: handle_stun on an authenticated binding response whose transaction
\* id matches no pair returns an error and mutates nothing: verified set,
\* connection state and pairs are as before the call.
C16_UnknownTransactionNoMutation ==
    [][\A target \in BulkAddrs, stun \in BulkMessages :
        (/\ last'.op = "handle_stun"
         /\ stun.kind = "response"
         /\ PairsWithTrans(candidate_pairs, stun.trans_id) = {}
         /\ accepts_stun(stun) = "Ok(true)"
         /\ handle_stun("peer", target, stun))
          => /\ last'.res = "Err(transaction)"
             /\ UNCHANGED <<verified, conn_state, candidate_pairs>>]_vars

\* The error half of C16 alone: the call returns the transaction error.
C16_UnknownTransactionIsError ==
    [][\A target \in BulkAddrs, stun \in BulkMessages :
        (/\ last'.op = "handle_stun"
         /\ stun.kind = "response"
         /\ PairsWithTrans(candidate_pairs, stun.trans_id) = {}
         /\ accepts_stun(stun) = "Ok(true)"
         /\ handle_stun("peer", target, stun))
          => /\ last'.res = "Err(transaction)"
             /\ candidate_pairs' = candidate_pairs]_vars

\* C17: after handle_stun has accepted a binding request or a binding
\* response, the connection state is Connected if at least one pair is
\* Waiting and Completed otherwise, and the target address is verified.
C17_StateAfterAccepted ==
    [][\A target \in BulkAddrs, stun \in BulkMessages :
        (/\ last'.op = "handle_stun"
         /\ accepts_stun(stun) = "Ok(true)"
         /\ handle_stun("peer", target, stun))
          => /\ conn_state' =
                  IF \E i \in 1..Len(candidate_pairs') :
                        candidate_pairs'[i].state = "Waiting"
                  THEN "Connected" ELSE "Completed"
             /\ target \in verified'
             /\ verified' = verified \cup {target}]_vars

\* C17 witness: an accepted message has left the agent Connected, with a
\* pair still Waiting and its target address verified.
C17_Witness ==
    /\ last.op = "handle_stun"
    /\ last.res = "Ok"
    /\ conn_state = "Connected"
    /\ verified # {}
    /\ \E i \in 1..Len(candidate_pairs) : candidate_pairs[i].state = "Waiting"
    /\ \E stun \in BulkMessages : accepts_stun(stun) = "Ok(true)"

\* An accepted message has left the agent Completed with no pair Waiting
\* and a pair Succeeded.
C17_CompletedWitness ==
    /\ last.op = "handle_stun"
    /\ last.res = "Ok"
    /\ conn_state = "Completed"
    /\ \E i \in 1..Len(candidate_pairs) : candidate_pairs[i].state = "Succeeded"
    /\ \A i \in 1..Len(candidate_pairs) : candidate_pairs[i].state # "Waiting"

\* The agent of the end-to-end case: controlling, with remote credentials,
\* one local host candidate of priority 100 and one remote candidate of
\* priority 100, hence one pair.
OneOnOne ==
    /\ controlling
    /\ remote_creds # {}
    /\ Len(local_candidates) = 1
    /\ local_candidates[1].host
    /\ local_candidates[1].prio = 100
    /\ Len(remote_candidates) = 1
    /\ remote_candidates[1].prio = 100
    /\ Len(candidate_pairs) = 1

\* C18: on that agent in state New a drive call enqueues exactly one
\* binding request, carrying the transaction id it stores on the pair, and
\* leaves the state Checking and the pair InProgress; handling an accepted
\* response with that transaction id then leaves the pair Succeeded and
\* the state Completed.
C18_EndToEnd ==
    [][OneOnOne =>
        /\ (conn_state = "New" /\ last'.op = "drive_stun_controlling")
             => /\ last'.res = "Ok"
                /\ Len(last'.out) = 1
                /\ last'.out[1].buffer.kind = "request"
                /\ last'.out[1].buffer.trans_id = candidate_pairs'[1].trans_id
                /\ candidate_pairs'[1].trans_id # None
                /\ candidate_pairs'[1].state = "InProgress"
                /\ conn_state' = "Checking"
        /\ \A target \in BulkAddrs, stun \in BulkMessages :
             (/\ conn_state = "Checking"
              /\ candidate_pairs[1].state = "InProgress"
              /\ last'.op = "handle_stun"
              /\ stun.kind = "response"
              /\ stun.trans_id = candidate_pairs[1].trans_id
              /\ accepts_stun(stun) = "Ok(true)"
              /\ handle_stun("peer", target, stun))
               => /\ last'.res = "Ok"
                  /\ candidate_pairs'[1].state = "Succeeded"
                  /\ conn_state' = "Completed"]_vars

\* C18 witness: the end of that run: one request was ever sent, its
\* response was handled, the pair is Succeeded and the state Completed.
C18_Witness ==
    /\ OneOnOne
    /\ trans_count = 1
    /\ last.op = "handle_stun"
    /\ last.res = "Ok"
    /\ candidate_pairs[1].state = "Succeeded"
    /\ candidate_pairs[1].attempted # None
    /\ conn_state = "Completed"
    /\ verified # {}

\* The middle of that run: the drive call has sent the one request.
C18_CheckingWitness ==
    /\ OneOnOne
    /\ last.op = "drive_stun_controlling"
    /\ Len(last.out) = 1
    /\ candidate_pairs[1].state = "InProgress"
    /\ conn_state = "Checking"

\* C19: drive_stun_controlling is a no-op when the agent is controlled and
\* when the connection state is none of New, Checking, Connected: it
\* returns Ok, enqueues nothing and leaves the connection state and every
\* pair as they are, even if pairs are Waiting.
C19_DriveNoOp ==
    [][(/\ last'.op = "drive_stun_controlling"
        /\ (~controlling \/ conn_state \notin {"New", "Checking", "Connected"}))
        => /\ last'.res = "Ok"
           /\ last'.out = <<>>
           /\ UNCHANGED <<conn_state, candidate_pairs, trans_count, verified>>]_vars

\* C19 witness: a drive call on a controlling agent in state Completed
\* has sent nothing although a pair is Waiting.
C19_Witness ==
    /\ last.op = "drive_stun_controlling"
    /\ last.res = "Ok"
    /\ last.out = <<>>
    /\ controlling
    /\ remote_creds # {}
    /\ conn_state = "Completed"
    /\ \E i \in 1..Len(candidate_pairs) : candidate_pairs[i].state = "Waiting"

\* A drive call on a controlled agent has sent nothing although a pair is
\* Waiting.
C19_ControlledWitness ==
    /\ last.op = "drive_stun_controlling"
    /\ last.res = "Ok"
    /\ last.out = <<>>
    /\ ~controlling
    /\ remote_creds # {}
    /\ conn_state = "New"
    /\ \E i \in 1..Len(candidate_pairs) : candidate_pairs[i].state = "Waiting"

\* The pairs a step moves to InProgress.
MovedToInProgress ==
    {i \in 1..Len(candidate_pairs) :
        /\ candidate_pairs[i].state # "InProgress"
        /\ candidate_pairs'[i].state = "InProgress"}

\* The packets of the call just made that carry transaction id trans_id.
SentWithTrans(trans_id) ==
    {k \in 1..Len(last'.out) : last'.out[k].buffer.trans_id = trans_id}

C20_DriveWitness ==
    /\ last.op = "drive_stun_controlling"
    /\ Len(last.out) >= 2
    /\ \E k \in 1..Len(last.out) : last.out[k].source # last.out[k].target

\* C21: no request is ever enqueued without a remote credential set: a
\* drive_stun_controlling call on a controlling agent in a checking state
\* with a Waiting pair and no remote credentials aborts (a panic, not an
\* Err), no pair becomes InProgress and nothing is enqueued.
C21_NoCheckWithoutCreds ==
    [][last'.op = "drive_stun_controlling" =>
        /\ last'.out # <<>> => remote_creds # {}
        /\ (/\ controlling
            /\ conn_state \in {"New", "Checking", "Connected"}
            /\ \E i \in 1..Len(candidate_pairs) :
                  candidate_pairs[i].state = "Waiting"
            /\ remote_creds = {})
             => /\ last'.res = "panic"
                /\ last'.out = <<>>
                /\ candidate_pairs' = candidate_pairs
                /\ trans_count' = trans_count]_vars

\* C21 witness: a drive call has aborted on an agent with a Waiting pair
\* and no remote credentials.
C21_Witness ==
    /\ last.op = "drive_stun_controlling"
    /\ last.res = "panic"
    /\ controlling
    /\ remote_creds = {}
    /\ \E i \in 1..Len(candidate_pairs) : candidate_pairs[i].state = "Waiting"
    /\ \A i \in 1..Len(candidate_pairs) : candidate_pairs[i].state # "InProgress"

\* The documented graph of the connection state.
DocumentedEdges ==
    {<<"New", "Checking">>, <<"Checking", "Connected">>, <<"Checking", "Failed">>,
     <<"Connected", "Completed">>, <<"Failed", "Completed">>}
    \cup {<<c, "Closed">> : c \in IceConnectionState \ {"Closed"}}

\* C22: every change of the connection state follows the documented graph
\* New -> Checking -> {Connected | Failed} -> Completed, plus a move to
\* Closed: never New -> Connected or New -> Completed, never Completed ->
\* Connected.
C22_DocumentedGraph ==
    [][conn_state' # conn_state => <<conn_state, conn_state'>> \in DocumentedEdges]_vars

\* The changes of the connection state the operations make.
C22_EdgesOfTheCode ==
    [][conn_state' # conn_state =>
        \/ /\ last'.op = "drive_stun_controlling"
           /\ <<conn_state, conn_state'>> \in
                 {<<"New", "Checking">>, <<"Connected", "Completed">>}
        \/ /\ last'.op = "handle_stun"
           /\ conn_state' \in {"Connected", "Completed"}]_vars

\* The pair of the list after a step that continues pair p: the one with
\* p's two indices.
Continues(q, p) == q.local_idx = p.local_idx /\ q.remote_idx = p.remote_idx

\* The step p -> q of one pair is a move of the check-state graph, made by
\* the operation that may make it.
PairMove(p, q) ==
    \/ q = p
    \/ /\ p.state = "Waiting"
       /\ q.state = "InProgress"
       /\ p.attempted = None /\ p.trans_id = None
       /\ q.attempted # None /\ q.trans_id # None
       /\ q.prio = p.prio
       /\ last'.op = "drive_stun_controlling"
       /\ Cardinality(SentWithTrans(q.trans_id)) = 1
    \/ /\ p.state = "InProgress"
       /\ q = [p EXCEPT !.state = "Succeeded"]
       /\ last'.op = "handle_stun"
       /\ \E target \in BulkAddrs, stun \in BulkMessages :
             /\ stun.kind = "response"
             /\ stun.trans_id = p.trans_id
             /\ handle_stun("peer", target, stun)

\* C23: a pair's check state only moves Waiting -> InProgress, by
\* drive_stun_controlling, and InProgress -> Succeeded or Failed, never
\* backwards; a pair is sent a binding request at most once; an InProgress
\* pair stays as it is across every operation other than the handling of
\* a response that carries its transaction id.
C23_CheckStateMoves ==
    [][/\ \A i \in 1..Len(candidate_pairs) :
            LET p == candidate_pairs[i]
                next == {j \in 1..Len(candidate_pairs') :
                            Continues(candidate_pairs'[j], p)}
            IN  /\ Cardinality(next) = 1
                /\ \A j \in next : PairMove(p, candidate_pairs'[j])
       /\ \A k \in 1..Len(last'.out) :
            last'.out[k].buffer.kind = "request" =>
                \E i \in MovedToInProgress :
                    candidate_pairs'[i].trans_id = last'.out[k].buffer.trans_id
       /\ \A j \in 1..Len(candidate_pairs') :
            (\A i \in 1..Len(candidate_pairs) :
                ~Continues(candidate_pairs'[j], candidate_pairs[i]))
              => candidate_pairs'[j].state = "Waiting"]_vars

\* C23 witness: an insertion has left one pair InProgress and one
\* Succeeded as they were and formed a pair that waits.
C23_Witness ==
    /\ last.op \in {"add_local_candidate", "add_remote_candidate"}
    /\ last.res = "added"
    /\ \E i \in 1..Len(candidate_pairs) : candidate_pairs[i].state = "InProgress"
    /\ \E i \in 1..Len(candidate_pairs) : candidate_pairs[i].state = "Succeeded"
    /\ \E i \in 1..Len(candidate_pairs) : candidate_pairs[i].state = "Waiting"

\* C24: for either role every pair's local_idx is an index into
\* local_candidates and its remote_idx an index into remote_candidates, and
\* they name the candidates the pair was formed from: the pair's priority
\* is the one computed from those two candidates.
C24_IndicesNameCandidates ==
    \A i \in 1..Len(candidate_pairs) :
        LET p == candidate_pairs[i]
        IN  /\ p.local_idx \in 0..(Len(local_candidates) - 1)
            /\ p.remote_idx \in 0..(Len(remote_candidates) - 1)
            /\ LET l == local_candidates[p.local_idx + 1].prio
                   r == remote_candidates[p.remote_idx + 1].prio
               IN  p.prio = IF controlling THEN pair_prio(l, r) ELSE pair_prio(r, l)

\* The same on a controlling agent alone.
C24_HoldsWhenControlling == controlling => C24_IndicesNameCandidates

\* On a controlled agent the two indices are stored exchanged.
C24_ExchangedWhenControlled ==
    ~controlling =>
        \A i \in 1..Len(candidate_pairs) :
            LET p == candidate_pairs[i]
            IN  /\ p.remote_idx \in 0..(Len(local_candidates) - 1)
                /\ p.local_idx \in 0..(Len(remote_candidates) - 1)
                /\ p.prio = pair_prio(remote_candidates[p.local_idx + 1].prio,
                                      local_candidates[p.remote_idx + 1].prio)

\* C25: a drive_stun_controlling call on a controlling agent in state
\* Connected with no pair Waiting leaves the state Completed, however many
\* pairs are InProgress.
C25_CompletedWhenNoneWaiting ==
    [][(/\ last'.op = "drive_stun_controlling"
        /\ controlling
        /\ conn_state = "Connected"
        /\ \A i \in 1..Len(candidate_pairs) : candidate_pairs[i].state # "Waiting")
        => conn_state' = "Completed"]_vars

\* What the loop does: a drive call that starts in Connected ends in
\* Completed exactly when it leaves no pair Waiting and fewer than ten
\* pairs InProgress.
C25_CompletedBelowCap ==
    [][(/\ last'.op = "drive_stun_controlling"
        /\ last'.res = "Ok"
        /\ controlling
        /\ conn_state = "Connected")
        => (conn_state' = "Completed" <=>
              /\ count_candidates_in_progress(candidate_pairs') < 10
              /\ \A i \in 1..Len(candidate_pairs') :
                    candidate_pairs'[i].state # "Waiting")]_vars

\* A drive call has sent the last Waiting pair's request and left the agent
\* Completed.
C25_CompletedByDrive ==
    /\ last.op = "drive_stun_controlling"
    /\ last.out # <<>>
    /\ conn_state = "Completed"
    /\ verified # {}

\* A drive call has left the agent Connected with ten pairs InProgress and
\* none Waiting.
C25_StuckAtCap ==
    /\ last.op = "drive_stun_controlling"
    /\ last.out = <<>>
    /\ conn_state = "Connected"
    /\ InProgressCount = 10
    /\ \A i \in 1..Len(candidate_pairs) : candidate_pairs[i].state # "Waiting"

AllSucceeded ==
    \A i \in 1..Len(candidate_pairs) : candidate_pairs[i].state = "Succeeded"

\* C26: with drive_stun_controlling called again and again and every
\* request answered by an accepted response, under any interleaving with
\* insertions every pair formed leaves Waiting and reaches Succeeded, and
\* the connection state becomes Completed with no pair Waiting.
C26_EveryPairSucceeds ==
    (candidate_pairs # <<>>) ~> (AllSucceeded /\ conn_state = "Completed")

\* The same for the pairs formed before the agent is first Completed.
C26_SucceedsUntilCompleted ==
    (candidate_pairs # <<>> /\ conn_state # "Completed")
        ~> (conn_state = "Completed" /\ ~has_more_candidates_to_check(candidate_pairs))

\* A pair has been formed on a Completed agent and waits, and a drive call
\* has sent nothing.
C26_WaitingInCompleted ==
    /\ conn_state = "Completed"
    /\ last.op = "drive_stun_controlling"
    /\ last.out = <<>>
    /\ \E i \in 1..Len(candidate_pairs) : candidate_pairs[i].state = "Waiting"
    /\ \A i \in 1..Len(candidate_pairs) : candidate_pairs[i].state # "InProgress"

\* |a - b| of two u32 values.
AbsDiff(a, b) == IF cmp(a, b) = "Less" THEN sub(b, a) ELSE sub(a, b)

\* The accumulator went from before to after by exactly d: up when value is
\* above mean, down when below, not at all when equal.
MovedBy(before, after, value, mean, d) ==
    CASE cmp(value, mean) = "Greater" ->
            cmp(after, before) # "Less" /\ sub(after, before) = d
      [] cmp(value, mean) = "Less" ->
            cmp(after, before) # "Greater" /\ sub(before, after) = d
      [] cmp(value, mean) = "Equal" -> after = before

\* What is said of new(value): smoothed() gives the measurement back.
FreshIsInitial(S, value) ==
    call_new(S, value) => smoothed(estimator') = value

\* What is said of the value record(value) returns.
ReturnsAbsError(value) ==
    call_record(value) => last'.out = <<AbsDiff(value, smoothed(estimator))>>

\* What is said of the accumulator in record(value).
MovesByAbsError(value) ==
    call_record(value) =>
        MovedBy(estimator.scaled, estimator'.scaled, value, smoothed(estimator),
                AbsDiff(value, smoothed(estimator)))

\* C27: a freshly created estimator's smoothed() equals its initial
\* measurement, and each record(value) returns the absolute difference
\* between value and the smoothed estimate before the call and moves the
\* scaled accumulator by exactly that difference, for every u32 measurement.
C27_SmoothedAndRecord ==
    [][/\ \A S \in Shifts, value \in Samples : FreshIsInitial(S, value)
       /\ \A value \in Samples : ReturnsAbsError(value) /\ MovesByAbsError(value)]_vars

\* value << S keeps every bit of value.
FitsShifted(S, value) == value.hi < Pow2(16 - S)

\* before + d is at most u32::MAX.
FitsAdded(before, d) == cmp(d, sub(U32_MAX, before)) # "Greater"

\* What does hold: the value returned is always the absolute difference; a
\* fresh estimator gives back a measurement below 2^(32-S); the accumulator
\* moves by the difference whenever the sum stays within u32.
C27_WithinU32 ==
    [][/\ \A S \in Shifts, value \in Samples :
            FitsShifted(S, value) => FreshIsInitial(S, value)
       /\ \A value \in Samples :
            /\ ReturnsAbsError(value)
            /\ (cmp(value, smoothed(estimator)) = "Greater"
                    => FitsAdded(estimator.scaled, AbsDiff(value, smoothed(estimator))))
               => MovesByAbsError(value)]_vars

\* A fresh estimator whose smoothed() is not the measurement it was made of.
C27_TruncatedByShift ==
    /\ Len(measurements) = 1
    /\ smoothed(estimator) # measurements[1]

\* record has returned a difference that the accumulator, stopped at
\* u32::MAX, did not move by; the estimator was made without loss.
C27_SaturatedByRecord ==
    /\ Len(measurements) = 2
    /\ FitsShifted(estimator.S, measurements[1])
    /\ last.op = "record"
    /\ estimator.scaled = U32_MAX
    /\ sub(U32_MAX, new(estimator.S, measurements[1]).scaled) # last.out[1]

\* record has moved the accumulator down, and up, by what it returned.
C27_RecordedBelowAndAbove ==
    /\ Len(measurements) = 3
    /\ last.op = "record"
    /\ last.out # <<ZERO>>
    /\ cmp(measurements[2], measurements[1]) = "Less"
    /\ cmp(measurements[3], measurements[1]) = "Greater"
    /\ estimator.scaled # U32_MAX

====
